---------------------------- MODULE Spec2Model ----------------------------
(***************************************************************************)
(* A model of collaborate-derive: the `#[derive(ColladaElement)]` macro    *)
(* (process_derive_input) and the parser it generates for a struct         *)
(* (generate_struct_impl) or an enum (generate_enum_impl).                 *)
(*                                                                         *)
(* A run derives one element type from its declaration and then runs the   *)
(* generated parse_element on one start element and the events that follow *)
(* it.  The helpers of the `utils` module the generated code calls         *)
(* (parse_children, verify_attributes, optional_text_contents,             *)
(* required_text_contents, stub_out) are not part of the derive crate;     *)
(* they are modelled from the written specification.                       *)
(***************************************************************************)
EXTENDS Integers, Sequences, FiniteSets, TLC

(***************************************************************************)
(* Bounds of the model.                                                    *)
(***************************************************************************)
\* attribute fields of a declared struct
MaxAttribs == 2
\* attributes on the start element
MaxDocAttribs == 2
\* child fields of a declared struct
MaxChildren == 2
\* events (child elements, character data) inside the parsed element
MaxEvents == 3
\* alternatives of a declared enum
MaxVariants == 3

(***************************************************************************)
(* Values.  A text is a sequence of whitespace-separated words.            *)
(***************************************************************************)
None == [tag |-> "None"]
Some(v) == [tag |-> "Some", val |-> v]
Vec(s) == [tag |-> "Vec", items |-> s]
IsSome(o) == o.tag = "Some"

Num(n) == [ty |-> "f32", n |-> n]
Str(t) == [ty |-> "String", s |-> t]

Ok(v) == [kind |-> "Ok", value |-> v]
Err(e) == [kind |-> "Err", error |-> e]
Panic(m) == [kind |-> "Panic", msg |-> m]
Failed(r) == r.kind \in {"Err", "Panic"}

\* the words `f32::from_str` accepts, with the number each denotes
Digits == {"1", "2"}
NumberOf(w) == IF w = "1" THEN 1 ELSE 2

\* The Value Decoder: `#ty::from_str(text)` / `text.parse::<#ty>()`.
\* String accepts every text; a number needs exactly one numeric word.
from_str(ty, text) ==
    IF ty = "String" THEN Ok(Str(text))
    ELSE IF Len(text) = 1 /\ text[1] \in Digits THEN Ok(Num(NumberOf(text[1])))
    ELSE Err([kind |-> "ValueDecodeError", text |-> text])

\* `Default::default()` of a text-decoded type
type_default(ty) == IF ty = "String" THEN Str(<<>>) ELSE Num(0)

\* the constant a `#[optional_with_default = "<ident>"]` names
const_value(ident, ty) == IF ty = "String" THEN Str(<<ident>>) ELSE Num(7)

\* the types parsed from text data; every other type is a ColladaElement
TextTypes == {"String", "DateTime", "AnyUri", "f32", "f64", "usize"}


(***************************************************************************)
(* Declarations (syn's DeriveInput).                                       *)
(*   input   = [ident, body, name, fields, variants]                       *)
(*             body in {"Struct", "Tuple", "Unit", "Enum"}                 *)
(*             name: the `#[name = "..."]` of the type, or NoName          *)
(*   field   = [ident, attrs, ty]                                          *)
(*   attr    = [name, form, lit]     form in {"Word", "NameValue", "List"} *)
(*   ty      = [path, angle, ident, types]                                 *)
(*             path: a `Ty::Path`; angle: angle-bracketed parameters;      *)
(*             ident: the last path segment; types: its type parameters    *)
(*   variant = [name, tuple, types]  a tuple variant and its member types  *)
(***************************************************************************)
NoName == "<none>"

Word(n) == [name |-> n, form |-> "Word", lit |-> ""]
NameValue(n, v) == [name |-> n, form |-> "NameValue", lit |-> v]
PlainTy(t) == [path |-> TRUE, angle |-> TRUE, ident |-> t, types |-> <<>>]
GenericTy(c, t) == [path |-> TRUE, angle |-> TRUE, ident |-> c, types |-> <<t>>]

\* `expr?` and `match expr { Ok(v) => .., failure => return failure }`: the
\* failure of r, or F applied to the value r holds.
Try(r, F(_)) == IF Failed(r) THEN r ELSE F(r.value)

\* The loop over one field's attributes (lines 100-149), from attribute k on.
\* st = [member_type, is_required, optional_with_default, special_name].
RECURSIVE field_attrs(_, _, _)
field_attrs(attrs, k, st) ==
    IF k > Len(attrs) THEN Ok(st)
    ELSE CASE attrs[k].name \in {"child", "attribute", "text"} ->
             IF st.member_type # "None"
             THEN Panic("Member type may only be specified once")
             ELSE field_attrs(attrs, k + 1,
                     [st EXCEPT !.member_type =
                         IF attrs[k].name = "child" THEN "Child"
                         ELSE IF attrs[k].name = "attribute" THEN "Attribute"
                         ELSE "Text"])
        [] attrs[k].name = "required" ->
             field_attrs(attrs, k + 1, [st EXCEPT !.is_required = TRUE])
        [] attrs[k].name = "optional_with_default" ->
             IF attrs[k].form = "Word"
             THEN field_attrs(attrs, k + 1,
                     [st EXCEPT !.optional_with_default = [kind |-> "Default"]])
             ELSE IF attrs[k].form = "NameValue"
             THEN field_attrs(attrs, k + 1,
                     [st EXCEPT !.optional_with_default =
                         [kind |-> "Value", ident |-> attrs[k].lit]])
             ELSE Panic("Invalid usage of #[optional_with_default]")
        [] attrs[k].name = "name" ->
             IF attrs[k].form = "NameValue"
             THEN field_attrs(attrs, k + 1, [st EXCEPT !.special_name = attrs[k].lit])
             ELSE Err("Name attribute must take the form #[name = foo]")
        [] OTHER -> field_attrs(attrs, k + 1, st)

\* occurrences_of with the test of `required` inverted
occurrences_of_required_inverted(ty, is_required, optional_with_default) ==
    IF Len(ty.types) = 0
    THEN IF optional_with_default.kind # "None"
         THEN Ok([occurrences |-> [occ |-> "OptionalWithDefault",
                                   default |-> optional_with_default],
                  inner_type |-> ty.ident])
         ELSE Ok([occurrences |-> [occ |-> "Required"],
                  inner_type |-> ty.ident])
    ELSE CASE ty.ident = "Option" ->
                Ok([occurrences |-> [occ |-> "Optional"],
                    inner_type |-> ty.types[1]])
           [] ty.ident = "Vec" ->
                IF ~is_required
                THEN Ok([occurrences |-> [occ |-> "RequiredMany"],
                         inner_type |-> ty.types[1]])
                ELSE Ok([occurrences |-> [occ |-> "OptionalMany"],
                         inner_type |-> ty.types[1]])
           [] OTHER ->
                Err("Unexpected child type with parameters, only Vec<T> and Option<T> are allowed to have type parameters")

\* The occurrences and the inner type of a field (lines 173-206).
occurrences_of(ty, is_required, optional_with_default) ==
    IF Len(ty.types) = 0
    THEN IF optional_with_default.kind # "None"
         THEN Ok([occurrences |-> [occ |-> "OptionalWithDefault",
                                   default |-> optional_with_default],
                  inner_type |-> ty.ident])
         ELSE Ok([occurrences |-> [occ |-> "Required"],
                  inner_type |-> ty.ident])
    ELSE CASE ty.ident = "Option" ->
                Ok([occurrences |-> [occ |-> "Optional"],
                    inner_type |-> ty.types[1]])
           [] ty.ident = "Vec" ->
                IF is_required
                THEN Ok([occurrences |-> [occ |-> "RequiredMany"],
                         inner_type |-> ty.types[1]])
                ELSE Ok([occurrences |-> [occ |-> "OptionalMany"],
                         inner_type |-> ty.types[1]])
           [] OTHER ->
                Err("Unexpected child type with parameters, only Vec<T> and Option<T> are allowed to have type parameters")

\* The data type of the inner type (lines 208-229).
data_type_of(inner_type) ==
    IF inner_type \in TextTypes
    THEN [kind |-> "TextData", ty |-> inner_type]
    ELSE [kind |-> "ColladaElement", ty |-> inner_type]

\* The member a field declares (lines 231-271), given what its attributes say
\* (st) and its occurrences and inner type (o).
member_of(field, st, o) ==
    CASE st.member_type = "Child" ->
           Ok([kind |-> "Child",
               member_name |-> field.ident,
               element_name |-> st.special_name,
               occurrences |-> o.occurrences,
               data_type |-> data_type_of(o.inner_type)])
      [] st.member_type = "Attribute" ->
           IF o.occurrences.occ \in {"OptionalMany", "RequiredMany"}
           THEN Err("Attribute may not be repeating, meaning it may not be of type Vec<T>")
           ELSE Ok([kind |-> "Attribute",
                    member_name |-> field.ident,
                    attrib_name |-> st.special_name,
                    occurrences |-> o.occurrences,
                    ty |-> o.inner_type])
      [] OTHER ->
           Ok([kind |-> "Text",
               member_name |-> field.ident,
               occurrences |-> o.occurrences,
               member_type |-> o.inner_type])

\* One iteration of `for field in fields` (lines 83-272): the member the field
\* declares, [kind |-> "Child" | "Attribute" | "Text", ...], or the failure.
process_field(field) ==
    Try(field_attrs(field.attrs, 1,
                    [member_type |-> "None", is_required |-> FALSE,
                     optional_with_default |-> [kind |-> "None"],
                     special_name |-> field.ident]),
        LAMBDA st :
            IF st.member_type = "None"
            THEN Panic("Missing #[child], #[attribute], or #[text] attribute on member")
            ELSE IF ~field.ty.path
            THEN Err("#[derive(ColladaElement)] does not support this member type")
            ELSE IF ~field.ty.angle
            THEN Err("Round brace function parameters are not supported")
            ELSE Try(occurrences_of(field.ty, st.is_required,
                                    st.optional_with_default),
                     LAMBDA o : member_of(field, st, o)))

NoText == [kind |-> "NoText"]

\* `for field in fields` (lines 83-272) from field k on, with the members
\* collected so far in acc = [attributes, children, text_contents].
RECURSIVE process_fields(_, _, _)
process_fields(fields, k, acc) ==
    IF k > Len(fields) THEN Ok(acc)
    ELSE Try(process_field(fields[k]),
             LAMBDA m :
                 CASE m.kind = "Child" ->
                        process_fields(fields, k + 1,
                            [acc EXCEPT !.children = Append(@, m)])
                   [] m.kind = "Attribute" ->
                        process_fields(fields, k + 1,
                            [acc EXCEPT !.attributes = Append(@, m)])
                   [] OTHER ->
                        IF acc.text_contents # NoText
                        THEN Panic("Only one member may have the #[text] attribute")
                        ELSE process_fields(fields, k + 1,
                                 [acc EXCEPT !.text_contents = m]))

\* The variants of an enum (lines 35-51).
RECURSIVE enum_variants(_, _, _)
enum_variants(variants, k, acc) ==
    IF k > Len(variants) THEN Ok(acc)
    ELSE IF ~variants[k].tuple
    THEN Panic("Only tuple variants with a single member are supported for enum variants")
    ELSE IF Len(variants[k].types) # 1
    THEN Panic("Enum variants may only have a single type")
    ELSE enum_variants(variants, k + 1,
             Append(acc, [name |-> variants[k].name,
                          inner_type |-> variants[k].types[1]]))

\* process_derive_input leaving stub_me_out false for a unit struct
process_derive_input_never_stub(input) ==
    IF input.body = "Enum"
    THEN Try(enum_variants(input.variants, 1, <<>>),
             LAMBDA vs : Ok([kind |-> "EnumMember", ident |-> input.ident,
                             variants |-> vs]))
    ELSE IF input.body = "Tuple"
    THEN Err("#[derive(ColladaElement)] does not support tuple structs")
    ELSE IF input.name = NoName
    THEN Err("Type must have #[name = ...] attribute when using #[derive(ColladaElement)]")
    ELSE Try(process_fields(IF input.body = "Unit" THEN <<>> ELSE input.fields, 1,
                            [attributes |-> <<>>, children |-> <<>>,
                             text_contents |-> NoText]),
             LAMBDA r : Ok([kind |-> "StructMember",
                            ident |-> input.ident,
                            element_name |-> input.name,
                            attributes |-> r.attributes,
                            children |-> r.children,
                            text_contents |-> r.text_contents,
                            stub_me_out |-> FALSE]))

\* process_derive_input: the ElementConfiguration of a declaration, or the
\* error it returns, or the panic it raises.
process_derive_input(input) ==
    IF input.body = "Enum"
    THEN Try(enum_variants(input.variants, 1, <<>>),
             LAMBDA vs : Ok([kind |-> "EnumMember", ident |-> input.ident,
                             variants |-> vs]))
    ELSE IF input.body = "Tuple"
    THEN Err("#[derive(ColladaElement)] does not support tuple structs")
    ELSE IF input.name = NoName
    THEN Err("Type must have #[name = ...] attribute when using #[derive(ColladaElement)]")
    ELSE Try(process_fields(IF input.body = "Unit" THEN <<>> ELSE input.fields, 1,
                            [attributes |-> <<>>, children |-> <<>>,
                             text_contents |-> NoText]),
             LAMBDA r : Ok([kind |-> "StructMember",
                            ident |-> input.ident,
                            element_name |-> input.name,
                            attributes |-> r.attributes,
                            children |-> r.children,
                            text_contents |-> r.text_contents,
                            stub_me_out |-> (input.body = "Unit")]))

(***************************************************************************)
(* The element types a declaration may refer to: three stubs (unit         *)
(* structs; TA and TA2 carry the same element name) and a group of two.    *)
(***************************************************************************)
UnitStruct(ident, name) ==
    [ident |-> ident, body |-> "Unit", name |-> name,
     fields |-> <<>>, variants |-> <<>>]
TupleVariant(name, ty) == [name |-> name, tuple |-> TRUE, types |-> <<ty>>]
EnumDecl(ident, variants) ==
    [ident |-> ident, body |-> "Enum", name |-> NoName,
     fields |-> <<>>, variants |-> variants]

StubTypes == {"TA", "TB", "TA2"}
ElementTypes == StubTypes \cup {"Geo"}

type_decl(ty) ==
    CASE ty = "TA" -> UnitStruct("TA", "a")
      [] ty = "TB" -> UnitStruct("TB", "b")
      [] ty = "TA2" -> UnitStruct("TA2", "a")
      [] OTHER -> EnumDecl("Geo", <<TupleVariant("A", "TA"), TupleVariant("B", "TB")>>)

\* the configuration the derive builds for a type of the catalog
config_of(ty) == process_derive_input(type_decl(ty)).value

(***************************************************************************)
(* The generated `impl ColladaElement`: name_test and add_names.           *)
(***************************************************************************)
\* name_test of an enum with the variants' tests joined with `&&`
RECURSIVE name_test_conjoined(_, _)
name_test_conjoined(cfg, name) ==
    IF cfg.kind = "StructMember"
    THEN name = cfg.element_name
    ELSE \A k \in 1..Len(cfg.variants) :
             name_test_conjoined(config_of(cfg.variants[k].inner_type), name)

\* name_test of a struct (lines 879-881) and of an enum (lines 386-393, 422-424):
\* the fold joins the variants' tests with `||`.
RECURSIVE name_test(_, _)
name_test(cfg, name) ==
    IF cfg.kind = "StructMember"
    THEN name = cfg.element_name
    ELSE \E k \in 1..Len(cfg.variants) :
             name_test(config_of(cfg.variants[k].inner_type), name)

\* add_names of a struct (lines 885-887) and of an enum (lines 416-418, 442-444):
\* the names pushed, in order.
RECURSIVE add_names(_)
RECURSIVE add_names_from(_, _)
add_names_from(variants, k) ==
    IF k > Len(variants) THEN <<>>
    ELSE add_names(config_of(variants[k].inner_type)) \o add_names_from(variants, k + 1)
add_names(cfg) ==
    IF cfg.kind = "StructMember"
    THEN <<cfg.element_name>>
    ELSE add_names_from(cfg.variants, 1)

\* parse_variants (lines 395-414): the `if .. else if ..` chain the fold builds
\* over the first k variants; the index of the variant whose branch runs, or 0
\* when the chain falls through to its final `else`.
\* parse_variants with the chain tested from the last alternative: the last
\* declared alternative that accepts the tag is chosen.
RECURSIVE parse_variants_last_wins(_, _, _)
parse_variants_last_wins(variants, k, tag) ==
    IF k = 0 THEN 0
    ELSE IF name_test(config_of(variants[k].inner_type), tag) THEN k
    ELSE parse_variants_last_wins(variants, k - 1, tag)

RECURSIVE parse_variants(_, _, _)
parse_variants(variants, k, tag) ==
    IF k = 0 THEN 0
    ELSE IF parse_variants(variants, k - 1, tag) # 0
    THEN parse_variants(variants, k - 1, tag)
    ELSE IF name_test(config_of(variants[k].inner_type), tag) THEN k
    ELSE 0

(***************************************************************************)
(* The document.  The parsed element is a start element                    *)
(*   element_start = [name, attributes]   attribute = [name, value]        *)
(* followed by its content, a sequence of events, each a whole child       *)
(* element or a run of character data:                                     *)
(*   [kind |-> "Element", name, attributes, body, text]                    *)
(*       body in {"Empty", "Text", "Elements"}                             *)
(*   [kind |-> "Characters", text]                                         *)
(* and by its own end tag.                                                 *)
(***************************************************************************)
Element(name, attributes, body, text) ==
    [kind |-> "Element", name |-> name, attributes |-> attributes,
     body |-> body, text |-> text]
Characters(text) ==
    [kind |-> "Characters", name |-> "", attributes |-> <<>>,
     body |-> "Text", text |-> text]

(***************************************************************************)
(* The helpers of `utils` the generated code calls.                        *)
(***************************************************************************)
\* utils::verify_attributes: an element that accepts no attribute.
verify_attributes(name, attributes, position) ==
    IF Len(attributes) # 0
    THEN Err([kind |-> "UnexpectedAttribute", position |-> position,
              element |-> name, attribute |-> attributes[1].name,
              expected |-> <<>>])
    ELSE Ok(<<>>)

\* utils::optional_text_contents: the decoded text of a child element, None
\* when the element is empty.
optional_text_contents(ty, child, parent, position) ==
    CASE child.body = "Empty" -> Ok(None)
      [] child.body = "Text" ->
           IF Failed(from_str(ty, child.text))
           THEN Err([kind |-> "ValueDecodeError", position |-> position,
                     text |-> child.text])
           ELSE Ok(Some(from_str(ty, child.text).value))
      [] OTHER -> Err([kind |-> "UnexpectedElement", position |-> position,
                       element |-> parent, found |-> "", expected |-> <<>>])

\* utils::required_text_contents: the decoded text of a child element, which
\* must have some.
required_text_contents(ty, child, parent, position) ==
    Try(optional_text_contents(ty, child, parent, position),
        LAMBDA result :
            IF result = None
            THEN Err([kind |-> "MissingValue", position |-> position,
                      element |-> parent])
            ELSE Ok(result.val))

\* parse_element of a type of the catalog on a child element: a stub skips the
\* subtree (utils::stub_out, lines 839-850), a group dispatches on the tag
\* (lines 426-440).
RECURSIVE parse_element(_, _)
parse_enum(cfg, k, child) ==
    IF k = 0 THEN Panic("Unexpected group member")
    ELSE Try(parse_element(cfg.variants[k].inner_type, child),
             LAMBDA element : Ok([ty |-> cfg.ident,
                                  variant |-> cfg.variants[k].name,
                                  inner |-> element]))
parse_element(ty, child) ==
    IF config_of(ty).kind = "StructMember"
    THEN Ok([ty |-> config_of(ty).ident])
    ELSE parse_enum(config_of(ty),
                    parse_variants(config_of(ty).variants,
                                   Len(config_of(ty).variants), child.name),
                    child)


(***************************************************************************)
(* The generated parse_element of a struct, piece by piece.                *)
(***************************************************************************)
Singular == {"Optional", "OptionalWithDefault", "Required"}
Many == {"OptionalMany", "RequiredMany"}

\* member_decls (lines 461-506): `let mut m = None;` or `let mut m = Vec::new();`
member_decl(occurrences) ==
    IF occurrences.occ \in Singular THEN None ELSE Vec(<<>>)

\* The arms of the `match` on the attribute name (lines 511-524, 563-576), tried in
\* declared order from arm k on: the slot whose arm runs, or 0 for the catch-all.
RECURSIVE matches(_, _, _)
matches(attributes, k, name) ==
    IF k > Len(attributes) THEN 0
    ELSE IF attributes[k].attrib_name = name THEN k
    ELSE matches(attributes, k + 1, name)

\* attrib_names (lines 526-527): the `expected` list of UnexpectedAttribute
\* attrib_names listing the fields' identifiers in place of the attributes' names
attrib_names_idents(attributes) ==
    [k \in 1..Len(attributes) |-> attributes[k].member_name]

attrib_names(attributes) ==
    [k \in 1..Len(attributes) |-> attributes[k].attrib_name]

\* the default of an OptionalWithDefault slot of type ty (lines 546-554, 765-773)
default_of(default_value, ty) ==
    IF default_value.kind = "Default" THEN type_default(ty)
    ELSE const_value(default_value.ident, ty)

\* required_attribs with the statements emitted in reverse order: the last
\* Required slot without a value is the one reported.
RECURSIVE required_attribs_reversed(_, _, _, _, _)
required_attribs_reversed(element_name, attributes, k, members, position) ==
    IF k > Len(attributes) THEN Ok(members)
    ELSE LET i == Len(attributes) - k + 1
             a == attributes[Len(attributes) - k + 1] IN
      CASE a.occurrences.occ = "Required" ->
             IF members[i] = None
             THEN Err([kind |-> "MissingAttribute", position |-> position,
                       element |-> element_name, attribute |-> a.attrib_name])
             ELSE required_attribs_reversed(element_name, attributes, k + 1,
                      [members EXCEPT ![i] = members[i].val], position)
        [] a.occurrences.occ = "OptionalWithDefault" ->
             required_attribs_reversed(element_name, attributes, k + 1,
                 [members EXCEPT ![i] =
                     IF members[i] = None
                     THEN default_of(a.occurrences.default, a.ty)
                     ELSE members[i].val], position)
        [] OTHER ->
             required_attribs_reversed(element_name, attributes, k + 1, members, position)

\* required_attribs (lines 529-559, 579), from slot k on: the members after the
\* `let m = ...` statements, or the MissingAttribute of the first that fails.
RECURSIVE required_attribs(_, _, _, _, _)
required_attribs(element_name, attributes, k, members, position) ==
    IF k > Len(attributes) THEN Ok(members)
    ELSE LET a == attributes[k] IN
      CASE a.occurrences.occ = "Required" ->
             IF members[k] = None
             THEN Err([kind |-> "MissingAttribute", position |-> position,
                       element |-> element_name, attribute |-> a.attrib_name])
             ELSE required_attribs(element_name, attributes, k + 1,
                      [members EXCEPT ![k] = members[k].val], position)
        [] a.occurrences.occ = "OptionalWithDefault" ->
             required_attribs(element_name, attributes, k + 1,
                 [members EXCEPT ![k] =
                     IF members[k] = None
                     THEN default_of(a.occurrences.default, a.ty)
                     ELSE members[k].val], position)
        [] OTHER ->
             required_attribs(element_name, attributes, k + 1, members, position)

\* the name test of a child slot comparing the tag with the slot's element name
\* for a child of nested-schema type too
child_name_test_by_name(child, test_name) == test_name = child.element_name

\* The name test of a child slot (lines 594-606).
child_name_test(child, test_name) ==
    IF child.data_type.kind = "TextData"
    THEN test_name = child.element_name
    ELSE name_test(config_of(child.data_type.ty), test_name)

\* The add_names of a child slot (lines 608-620).
child_add_names(child) ==
    IF child.data_type.kind = "TextData"
    THEN <<child.element_name>>
    ELSE add_names(config_of(child.data_type.ty))

\* handle_result with a Many slot growing at the front
handle_result_prepend(child, member, elem, position) ==
    IF child.data_type.kind = "TextData"
    THEN Try(verify_attributes(child.element_name, elem.attributes, position),
             LAMBDA verified :
               CASE child.occurrences.occ \in {"Optional", "OptionalWithDefault"} ->
                      optional_text_contents(child.data_type.ty, elem,
                                             child.element_name, position)
                 [] child.occurrences.occ = "Required" ->
                      Try(required_text_contents(child.data_type.ty, elem,
                                                 child.element_name, position),
                          LAMBDA result : Ok(Some(result)))
                 [] OTHER ->
                      Try(optional_text_contents(child.data_type.ty, elem,
                                                 child.element_name, position),
                          LAMBDA result :
                              IF IsSome(result)
                              THEN Ok(Vec(<<result.val>> \o member.items))
                              ELSE Ok(member)))
    ELSE Try(parse_element(child.data_type.ty, elem),
             LAMBDA result :
                 IF child.occurrences.occ \in Singular THEN Ok(Some(result))
                 ELSE Ok(Vec(<<result>> \o member.items)))

\* handle_result with a singular slot keeping the value it already holds
handle_result_keep_first(child, member, elem, position) ==
    IF child.occurrences.occ \in Singular /\ IsSome(member) THEN Ok(member)
    ELSE IF child.data_type.kind = "TextData"
    THEN Try(verify_attributes(child.element_name, elem.attributes, position),
             LAMBDA verified :
               CASE child.occurrences.occ \in {"Optional", "OptionalWithDefault"} ->
                      optional_text_contents(child.data_type.ty, elem,
                                             child.element_name, position)
                 [] child.occurrences.occ = "Required" ->
                      Try(required_text_contents(child.data_type.ty, elem,
                                                 child.element_name, position),
                          LAMBDA result : Ok(Some(result)))
                 [] OTHER ->
                      Try(optional_text_contents(child.data_type.ty, elem,
                                                 child.element_name, position),
                          LAMBDA result :
                              IF IsSome(result)
                              THEN Ok(Vec(Append(member.items, result.val)))
                              ELSE Ok(member)))
    ELSE Try(parse_element(child.data_type.ty, elem),
             LAMBDA result :
                 IF child.occurrences.occ \in Singular THEN Ok(Some(result))
                 ELSE Ok(Vec(Append(member.items, result))))

\* handle_result (lines 622-697): the action of a child slot on a matched child
\* element; the member after it, or the error it returns.
handle_result(child, member, elem, position) ==
    IF child.data_type.kind = "TextData"
    THEN Try(verify_attributes(child.element_name, elem.attributes, position),
             LAMBDA verified :
               CASE child.occurrences.occ \in {"Optional", "OptionalWithDefault"} ->
                      optional_text_contents(child.data_type.ty, elem,
                                             child.element_name, position)
                 [] child.occurrences.occ = "Required" ->
                      Try(required_text_contents(child.data_type.ty, elem,
                                                 child.element_name, position),
                          LAMBDA result : Ok(Some(result)))
                 [] OTHER ->
                      Try(optional_text_contents(child.data_type.ty, elem,
                                                 child.element_name, position),
                          LAMBDA result :
                              IF IsSome(result)
                              THEN Ok(Vec(Append(member.items, result.val)))
                              ELSE Ok(member)))
    ELSE Try(parse_element(child.data_type.ty, elem),
             LAMBDA result :
                 IF child.occurrences.occ \in Singular THEN Ok(Some(result))
                 ELSE Ok(Vec(Append(member.items, result))))

\* The words of a text decoded one by one (lines 737-745), from word k on.
RECURSIVE parse_words(_, _, _)
parse_words(ty, text, k) ==
    IF k > Len(text) THEN Ok(<<>>)
    ELSE Try(from_str(ty, <<text[k]>>),
             LAMBDA word : Try(parse_words(ty, text, k + 1),
                               LAMBDA rest : Ok(<<word>> \o rest)))

\* text_contents_impl (lines 714-752): the handler of character data; the text
\* member after it, or the error it returns.
text_contents_impl(text_contents, member, text, position) ==
    IF text_contents.occurrences.occ \in Singular
    THEN IF Failed(from_str(text_contents.member_type, text))
         THEN Err([kind |-> "ValueDecodeError", position |-> position, text |-> text])
         ELSE Ok(Some(from_str(text_contents.member_type, text).value))
    ELSE IF Failed(parse_words(text_contents.member_type, text, 1))
         THEN Err([kind |-> "ValueDecodeError", position |-> position, text |-> text])
         ELSE Ok(Vec(parse_words(text_contents.member_type, text, 1).value))

\* required_childs (lines 754-778, 804), from slot k on: the members after the
\* `let m = ...` statements, or the panic of the first `expect` that fails.
RECURSIVE required_childs(_, _, _)
required_childs(children, k, members) ==
    IF k > Len(children) THEN Ok(members)
    ELSE LET c == children[k] IN
      CASE c.occurrences.occ = "Required" ->
             IF members[k] = None
             THEN Panic("Required child was None")
             ELSE required_childs(children, k + 1,
                      [members EXCEPT ![k] = members[k].val])
        [] c.occurrences.occ = "OptionalWithDefault" ->
             required_childs(children, k + 1,
                 [members EXCEPT ![k] =
                     IF members[k] = None
                     THEN default_of(c.occurrences.default, c.data_type.ty)
                     ELSE members[k].val])
        [] OTHER -> required_childs(children, k + 1, members)

\* unwrap_text_contents (lines 780-793, 806)
unwrap_text_contents(text_contents, member) ==
    IF text_contents = NoText THEN Ok(member)
    ELSE IF text_contents.occurrences.occ = "Required"
    THEN IF member = None
         THEN Panic("Required child was None")
         ELSE Ok(member.val)
    ELSE Ok(member)

\* result_decl (lines 812-837)
result_decl(ident, attribs_, childs_, text_) ==
    Ok([ty |-> ident, attribs |-> attribs_, childs |-> childs_, text |-> text_])

(***************************************************************************)
(* utils::parse_children: the children matcher.                            *)
(***************************************************************************)
\* the first child slot, in declared order from slot k on, whose name test
\* accepts the tag; 0 when none does
RECURSIVE find_child(_, _, _)
find_child(children, k, tag) ==
    IF k > Len(children) THEN 0
    ELSE IF child_name_test(children[k], tag) THEN k
    ELSE find_child(children, k + 1, tag)

\* the names every slot accepts, for UnexpectedElement
RECURSIVE expected_names(_, _)
expected_names(children, k) ==
    IF k > Len(children) THEN <<>>
    ELSE child_add_names(children[k]) \o expected_names(children, k + 1)


(***************************************************************************)
(* State.                                                                  *)
(*   input          the declaration the derive is applied to               *)
(*   config         its ElementConfiguration, once derived                 *)
(*   current        the struct configuration whose parse_element runs      *)
(*   wrap           the enum variants whose parse_element awaits the       *)
(*                  result of `current`, innermost last                    *)
(*   element_start  the start element handed to parse_element              *)
(*   document       the events that follow it, up to its end tag           *)
(*   reader         the number of those events consumed (the end tag       *)
(*                  counts as one more)                                    *)
(*   pc             the position in the generated code                     *)
(*   attr_index     the next attribute of `for attribute in ...`           *)
(*   attribs, childs, text   the `let mut` members of parse_element        *)
(*   attrib_fields  the attribute members as rebound by required_attribs   *)
(*   outcome        what parse_element (or the derive) returned            *)
(***************************************************************************)
VARIABLES input, config, current, wrap, element_start, document, reader,
          pc, attr_index, attribs, childs, text, attrib_fields, outcome

vars == <<input, config, current, wrap, element_start, document, reader,
          pc, attr_index, attribs, childs, text, attrib_fields, outcome>>

Running == [kind |-> "Running"]
NoConfig == [kind |-> "None"]
position == reader

\* `#[derive(ColladaElement)]` (lines 11-22, 374-379)
Derive ==
    /\ pc = "derive"
    /\ LET r == process_derive_input(input) IN
       IF Failed(r)
       THEN /\ pc' = "rejected"
            /\ outcome' = r
            /\ UNCHANGED <<config, current>>
       ELSE /\ pc' = "call"
            /\ config' = r.value
            /\ current' = r.value
            /\ UNCHANGED outcome
    /\ UNCHANGED <<input, wrap, element_start, document, reader, attr_index,
                   attribs, childs, text, attrib_fields>>

\* parse_element of an enum (lines 426-440), up to the call of the selected
\* variant's parse_element
ParseVariants ==
    /\ pc = "call"
    /\ current.kind = "EnumMember"
    /\ LET k == parse_variants(current.variants, Len(current.variants),
                               element_start.name)
       IN
       IF k = 0
       THEN /\ outcome' = Panic("Unexpected group member")
            /\ pc' = "done"
            /\ UNCHANGED <<current, wrap>>
       ELSE /\ wrap' = Append(wrap, [ident |-> current.ident,
                                     name |-> current.variants[k].name,
                                     index |-> k])
            /\ current' = config_of(current.variants[k].inner_type)
            /\ UNCHANGED <<pc, outcome>>
    /\ UNCHANGED <<input, config, element_start, document, reader, attr_index,
                   attribs, childs, text, attrib_fields>>

\* `Ok(#ident::#name(element))` (lines 401-402, 409-410)
WrapVariant ==
    /\ pc = "return"
    /\ wrap # <<>>
    /\ LET w == wrap[Len(wrap)] IN
       outcome' = Ok([ty |-> w.ident, variant |-> w.name, inner |-> outcome.value])
    /\ wrap' = SubSeq(wrap, 1, Len(wrap) - 1)
    /\ pc' = IF Len(wrap) = 1 THEN "done" ELSE "return"
    /\ UNCHANGED <<input, config, current, element_start, document, reader,
                   attr_index, attribs, childs, text, attrib_fields>>

\* where a struct's parse_element goes when it returns Ok
Returned == IF wrap = <<>> THEN "done" ELSE "return"

\* parse_element of a stub (lines 839-850): utils::stub_out skips the element
StubOut ==
    /\ pc = "call"
    /\ current.kind = "StructMember"
    /\ current.stub_me_out
    /\ reader' = Len(document) + 1
    /\ outcome' = Ok([ty |-> current.ident])
    /\ pc' = Returned
    /\ UNCHANGED <<input, config, current, wrap, element_start, document,
                   attr_index, attribs, childs, text, attrib_fields>>

\* the body with the children matched before the attributes are validated
body_order_children_first == <<"children", "attributes", "assemble">>

\* The statements of the body of parse_element after the member declarations,
\* in the order the quote emits them (lines 866-870): `#attributes_impl`,
\* `#children_impl`, `#result_decl`.
body_order == <<"attributes", "children", "assemble">>

\* the statement that follows in the body
after(phase) == body_order[(CHOOSE i \in 1..2 : body_order[i] = phase) + 1]

\* member_decls (lines 461-506, 864)
MemberDecls ==
    /\ pc = "call"
    /\ current.kind = "StructMember"
    /\ ~current.stub_me_out
    /\ attribs' = [k \in 1..Len(current.attributes) |-> None]
    /\ childs' = [k \in 1..Len(current.children) |->
                     member_decl(current.children[k].occurrences)]
    /\ text' = IF current.text_contents = NoText THEN None
               ELSE member_decl(current.text_contents.occurrences)
    /\ attr_index' = 1
    /\ pc' = body_order[1]
    /\ UNCHANGED <<input, config, current, wrap, element_start, document,
                   reader, attrib_fields, outcome>>

\* one iteration of `for attribute in element_start.attributes` (lines 562-577)
ParseAttribute ==
    /\ pc = "attributes"
    /\ Len(current.attributes) # 0
    /\ attr_index <= Len(element_start.attributes)
    /\ LET attribute == element_start.attributes[attr_index]
           k == matches(current.attributes, 1, attribute.name)
       IN
       IF k = 0
       THEN /\ outcome' = Err([kind |-> "UnexpectedAttribute",
                               position |-> position,
                               element |-> current.element_name,
                               attribute |-> attribute.name,
                               expected |-> attrib_names(current.attributes)])
            /\ pc' = "done"
            /\ UNCHANGED <<attribs, attr_index>>
       ELSE LET result == from_str(current.attributes[k].ty, attribute.value) IN
            IF Failed(result)
            THEN /\ outcome' = Err([kind |-> "ValueDecodeError",
                                    position |-> position,
                                    text |-> attribute.value])
                 /\ pc' = "done"
                 /\ UNCHANGED <<attribs, attr_index>>
            ELSE /\ attribs' = [attribs EXCEPT ![k] = Some(result.value)]
                 /\ attr_index' = attr_index + 1
                 /\ UNCHANGED <<pc, outcome>>
    /\ UNCHANGED <<input, config, current, wrap, element_start, document,
                   reader, childs, text, attrib_fields>>

\* `#( #required_attribs )*` (line 579), once the loop is over
RequiredAttribs ==
    /\ pc = "attributes"
    /\ Len(current.attributes) # 0
    /\ attr_index > Len(element_start.attributes)
    /\ LET r == required_attribs(current.element_name, current.attributes, 1,
                                 attribs, position)
       IN
       IF Failed(r)
       THEN /\ outcome' = r
            /\ pc' = "done"
            /\ UNCHANGED attrib_fields
       ELSE /\ attrib_fields' = r.value
            /\ pc' = after("attributes")
            /\ UNCHANGED outcome
    /\ UNCHANGED <<input, config, current, wrap, element_start, document,
                   reader, attr_index, attribs, childs, text>>

\* the attributes of a struct without attribute members (lines 581-585)
VerifyAttributes ==
    /\ pc = "attributes"
    /\ Len(current.attributes) = 0
    /\ LET r == verify_attributes(current.element_name,
                                  element_start.attributes, position)
       IN
       IF Failed(r)
       THEN /\ outcome' = r
            /\ pc' = "done"
            /\ UNCHANGED attrib_fields
       ELSE /\ attrib_fields' = <<>>
            /\ pc' = after("attributes")
            /\ UNCHANGED outcome
    /\ UNCHANGED <<input, config, current, wrap, element_start, document,
                   reader, attr_index, attribs, childs, text>>

\* parse_children on the start tag of a child (lines 796-802): the first slot
\* whose name test accepts it runs its action (lines 704-707)
ChildElement ==
    /\ pc = "children"
    /\ reader < Len(document)
    /\ document[reader + 1].kind = "Element"
    /\ reader' = reader + 1
    /\ LET elem == document[reader + 1]
           k == find_child(current.children, 1, elem.name)
       IN
       IF k = 0
       THEN /\ outcome' = Err([kind |-> "UnexpectedElement",
                               position |-> position,
                               element |-> current.element_name,
                               found |-> elem.name,
                               expected |-> expected_names(current.children, 1)])
            /\ pc' = "done"
            /\ UNCHANGED childs
       ELSE LET r == handle_result(current.children[k], childs[k], elem, position) IN
            IF Failed(r)
            THEN /\ outcome' = r
                 /\ pc' = "done"
                 /\ UNCHANGED childs
            ELSE /\ childs' = [childs EXCEPT ![k] = r.value]
                 /\ UNCHANGED <<pc, outcome>>
    /\ UNCHANGED <<input, config, current, wrap, element_start, document,
                   attr_index, attribs, text, attrib_fields>>

\* parse_children on character data: the text handler (lines 714-752), when the
\* struct has a text member
CharacterData ==
    /\ pc = "children"
    /\ reader < Len(document)
    /\ document[reader + 1].kind = "Characters"
    /\ reader' = reader + 1
    /\ IF current.text_contents = NoText
       THEN /\ outcome' = Err([kind |-> "UnexpectedCharacterData",
                               position |-> position,
                               element |-> current.element_name])
            /\ pc' = "done"
            /\ UNCHANGED text
       ELSE LET r == text_contents_impl(current.text_contents, text,
                                        document[reader + 1].text, position)
            IN
            IF Failed(r)
            THEN /\ outcome' = r
                 /\ pc' = "done"
                 /\ UNCHANGED text
            ELSE /\ text' = r.value
                 /\ UNCHANGED <<pc, outcome>>
    /\ UNCHANGED <<input, config, current, wrap, element_start, document,
                   attr_index, attribs, childs, attrib_fields>>

\* parse_children on the element's own end tag: the loop stops
EndElement ==
    /\ pc = "children"
    /\ reader = Len(document)
    /\ reader' = reader + 1
    /\ pc' = after("children")
    /\ UNCHANGED <<input, config, current, wrap, element_start, document,
                   attr_index, attribs, childs, text, attrib_fields, outcome>>

\* `#( #required_childs )*`, `#unwrap_text_contents`, `#result_decl`
\* (lines 804-806, 870)
Assemble ==
    /\ pc = "assemble"
    /\ LET c == required_childs(current.children, 1, childs) IN
       IF Failed(c)
       THEN outcome' = c /\ pc' = "done"
       ELSE LET t == unwrap_text_contents(current.text_contents, text) IN
            IF Failed(t)
            THEN outcome' = t /\ pc' = "done"
            ELSE /\ outcome' = result_decl(current.ident, attrib_fields,
                                           c.value, t.value)
                 /\ pc' = Returned
    /\ UNCHANGED <<input, config, current, wrap, element_start, document,
                   reader, attr_index, attribs, childs, text, attrib_fields>>

Next ==
    \/ Derive
    \/ ParseVariants
    \/ WrapVariant
    \/ StubOut
    \/ MemberDecls
    \/ ParseAttribute
    \/ RequiredAttribs
    \/ VerifyAttributes
    \/ ChildElement
    \/ CharacterData
    \/ EndElement
    \/ Assemble


(***************************************************************************)
(* The declarations and documents of the model.                            *)
(***************************************************************************)
SeqsUpTo(S, n) == UNION {[1..k -> S] : k \in 0..n}
SeqsFromTo(S, m, n) == UNION {[1..k -> S] : k \in m..n}
Distinct(s) == \A i, j \in 1..Len(s) : i # j => s[i] # s[j]

\* The shapes a member is declared with, one per ChildOccurrences; "Default" and
\* "Value" are the two forms of `#[optional_with_default]`.
Shapes == {"Required", "Optional", "Default", "Value", "OptionalMany", "RequiredMany"}

shape_attrs(shape) ==
    CASE shape = "Default" -> <<Word("optional_with_default")>>
      [] shape = "Value" -> <<NameValue("optional_with_default", "SEVEN")>>
      [] shape = "RequiredMany" -> <<Word("required")>>
      [] OTHER -> <<>>

shape_ty(shape, ty) ==
    CASE shape = "Optional" -> GenericTy("Option", ty)
      [] shape \in {"OptionalMany", "RequiredMany"} -> GenericTy("Vec", ty)
      [] OTHER -> PlainTy(ty)

\* `#[<member>] <ident>: <ty>`, or `#[<member>] #[name = "<name>"] <ident>: <ty>`
\* when the matched name is not the identifier
FieldDecl(member, ident, name, shape, ty) ==
    [ident |-> ident,
     attrs |-> <<Word(member)>>
               \o (IF name = ident THEN <<>> ELSE <<NameValue("name", name)>>)
               \o shape_attrs(shape),
     ty |-> shape_ty(shape, ty)]

MemberIdents == <<"m1", "m2", "m3", "m4", "m5", "m6">>

\* The fields of a list of member choices [name, shape, ty]: a member is named
\* after what it matches unless an earlier member already is.
Fields(member, choices) ==
    [k \in 1..Len(choices) |->
        FieldDecl(member,
                  IF \E j \in 1..(k - 1) : choices[j].name = choices[k].name
                  THEN MemberIdents[k] ELSE choices[k].name,
                  choices[k].name, choices[k].shape, choices[k].ty)]

StructDecl(fields) ==
    [ident |-> "Foo", body |-> "Struct", name |-> "foo",
     fields |-> fields, variants |-> <<>>]

Start(name, attributes) == [name |-> name, attributes |-> attributes]

\* attribute members: `id` is a String, `w` an f32
AttribChoices ==
    {[name |-> c[1], shape |-> sh, ty |-> c[2]] :
        c \in {<<"id", "String">>, <<"w", "f32">>},
        sh \in {"Required", "Optional", "Default", "Value"}}

\* the attributes of a start element: distinct names, `extra` is in no schema,
\* "x" is no number
DocAttribs ==
    {s \in SeqsUpTo([name : {"id", "w", "extra"}, value : {<<"1">>, <<"x">>}],
                    MaxDocAttribs) :
        Distinct([k \in 1..Len(s) |-> s[k].name])}

\* child members: text-decoded children `a` and `b`, and children of the
\* element types TA and Geo
ChildChoices ==
    {[name |-> n, shape |-> sh, ty |-> "f32"] : n \in {"a", "b"}, sh \in Shapes}
    \cup {[name |-> "e", shape |-> sh, ty |-> t] : sh \in Shapes, t \in {"TA", "Geo"}}

\* child elements: `z` is in no schema
ChildEvents ==
    {Element("a", <<>>, "Text", <<"1">>), Element("a", <<>>, "Text", <<"2">>),
     Element("a", <<>>, "Empty", <<>>), Element("a", <<>>, "Text", <<"x">>),
     Element("b", <<>>, "Text", <<"1">>), Element("z", <<>>, "Empty", <<>>)}

TextEvents ==
    {Characters(<<"1">>), Characters(<<"2">>), Characters(<<"1", "2">>),
     Characters(<<"x">>), Element("a", <<>>, "Text", <<"1">>)}

\* structs with attribute members only, on every list of attributes
InitAttributes ==
    \E choices \in SeqsUpTo(AttribChoices, MaxAttribs), attributes \in DocAttribs :
        /\ input = StructDecl(Fields("attribute", choices))
        /\ element_start = Start("foo", attributes)
        /\ document = <<>>

\* structs with one child member, on every content
InitChild ==
    \E choice \in ChildChoices, events \in SeqsUpTo(ChildEvents, MaxEvents) :
        /\ input = StructDecl(Fields("child", <<choice>>))
        /\ element_start = Start("foo", <<>>)
        /\ document = events

\* structs with several child members, on shorter contents
InitChildren ==
    \E choices \in SeqsFromTo(ChildChoices, 2, MaxChildren),
       events \in SeqsUpTo(ChildEvents, MaxEvents - 1) :
        /\ input = StructDecl(Fields("child", choices))
        /\ element_start = Start("foo", <<>>)
        /\ document = events

\* structs with a text member, alone or after an optional child `a`
InitText ==
    \E shape \in Shapes, ty \in {"f32", "String"}, with_child \in BOOLEAN,
       events \in SeqsUpTo(TextEvents, MaxEvents) :
        /\ input = StructDecl(
               (IF with_child
                THEN <<FieldDecl("child", "a", "a", "Optional", "f32")>> ELSE <<>>)
               \o <<FieldDecl("text", "data", "data", shape, ty)>>)
        /\ element_start = Start("foo", <<>>)
        /\ document = events

\* the struct `foo` with a required attribute `id` and an optional child `bar`
InitFoo ==
    \E attributes \in DocAttribs,
       events \in SeqsUpTo({Element("bar", <<>>, "Text", <<"1">>),
                            Element("bar", <<>>, "Empty", <<>>),
                            Element("bar", <<[name |-> "id", value |-> <<"1">>]>>,
                                    "Text", <<"1">>),
                            Element("bar", <<>>, "Elements", <<>>)}, 1) :
        /\ input = StructDecl(<<FieldDecl("attribute", "id", "id", "Required", "String"),
                                FieldDecl("child", "bar", "bar", "Optional", "f32")>>)
        /\ element_start = Start("foo", attributes)
        /\ document = events

\* a stub, whatever its attributes and content
InitStub ==
    \E attributes \in DocAttribs, events \in SeqsUpTo(ChildEvents, 1) :
        /\ input = UnitStruct("Foo", "foo")
        /\ element_start = Start("foo", attributes)
        /\ document = events

\* enums over the stubs, called on every tag
InitEnum ==
    \E types \in SeqsFromTo(StubTypes, 1, MaxVariants), tag \in {"a", "b", "c"} :
        /\ input = EnumDecl("Group",
               [k \in 1..Len(types) |-> TupleVariant(MemberIdents[k], types[k])])
        /\ element_start = Start(tag, <<>>)
        /\ document = <<>>

\* a struct whose members all bear a `#[name = ...]` that is not their
\* identifier: an attribute, a text-decoded child and a child of an element type
InitNamed ==
    \E attributes \in DocAttribs, ty \in ElementTypes,
       events \in SeqsUpTo(ChildEvents \cup {Element("e", <<>>, "Empty", <<>>)}, 2) :
        /\ input = StructDecl(<<FieldDecl("attribute", "ident", "id", "Optional", "String"),
                                FieldDecl("child", "first", "b", "Optional", "f32"),
                                FieldDecl("child", "second", "e", "Optional", ty)>>)
        /\ element_start = Start("foo", attributes)
        /\ document = events

\* `#[<member>] m: <ty>`, `Option<ty>`, `Vec<ty>` or `Box<ty>`, with or without
\* `#[required]` and either form of `#[optional_with_default]`
ShapedField(member, container, required, default, ty) ==
    [ident |-> "m",
     attrs |-> <<Word(member)>>
               \o (IF required THEN <<Word("required")>> ELSE <<>>)
               \o (CASE default = "Default" -> <<Word("optional_with_default")>>
                     [] default = "Value" -> <<NameValue("optional_with_default", "SEVEN")>>
                     [] OTHER -> <<>>),
     ty |-> IF container = "None" THEN PlainTy(ty) ELSE GenericTy(container, ty)]

\* structs with one member of every declared shape, the shapes the derive
\* rejects included
InitShapes ==
    \E member \in {"attribute", "child", "text"},
       container \in {"None", "Option", "Vec", "Box"},
       required \in BOOLEAN, default \in {"None", "Default", "Value"},
       ty \in {"f32", "TA"},
       attributes \in {<<>>, <<[name |-> "m", value |-> <<"1">>]>>},
       events \in SeqsUpTo({Element("m", <<>>, "Text", <<"1">>),
                            Element("a", <<>>, "Empty", <<>>),
                            Characters(<<"1">>)}, 1) :
        /\ member = "child" \/ ty = "f32"
        /\ input = StructDecl(<<ShapedField(member, container, required, default, ty)>>)
        /\ element_start = Start("foo", attributes)
        /\ document = events

Init ==
    /\ \/ InitAttributes
       \/ InitChild
       \/ InitChildren
       \/ InitText
       \/ InitFoo
       \/ InitStub
       \/ InitEnum
       \/ InitNamed
       \/ InitShapes
    /\ config = NoConfig
    /\ current = NoConfig
    /\ wrap = <<>>
    /\ reader = 0
    /\ pc = "derive"
    /\ attr_index = 1
    /\ attribs = <<>>
    /\ childs = <<>>
    /\ text = None
    /\ attrib_fields = <<>>
    /\ outcome = Running

Spec == Init /\ [][Next]_vars


(***************************************************************************)
(* Properties.  They are read off the declaration, the start element, the  *)
(* document and the outcome, so that the generated code has to agree with  *)
(* them.                                                                   *)
(***************************************************************************)
\* parse_element of the derived struct has returned (or panicked)
StructDone == pc = "done" /\ config.kind = "StructMember"
StructOk == StructDone /\ outcome.kind = "Ok"
NonStub == config.kind = "StructMember" /\ ~config.stub_me_out

Slots == 1..Len(config.attributes)
DocAttrs == 1..Len(element_start.attributes)
SlotNames == {config.attributes[k].attrib_name : k \in Slots}
DocAttrNames == {element_start.attributes[i].name : i \in DocAttrs}

\* attribute i of the start element bears the name of slot k, and no earlier
\* slot bears that name
Fills(i, k) ==
    /\ element_start.attributes[i].name = config.attributes[k].attrib_name
    /\ \A j \in 1..(k - 1) :
           config.attributes[j].attrib_name # config.attributes[k].attrib_name
Filled(k) == \E i \in DocAttrs : Fills(i, k)

\* attribute i bears the name of a slot, and its value decodes to that slot's type
Decodes(i) ==
    \E k \in Slots :
        /\ Fills(i, k)
        /\ from_str(config.attributes[k].ty, element_start.attributes[i].value).kind = "Ok"

IsMissingAttribute(name) ==
    /\ outcome.kind = "Err"
    /\ outcome.error.kind = "MissingAttribute"
    /\ outcome.error.element = config.element_name
    /\ outcome.error.attribute = name

IsUnexpectedAttribute(name, expected) ==
    /\ outcome.kind = "Err"
    /\ outcome.error.kind = "UnexpectedAttribute"
    /\ outcome.error.element = config.element_name
    /\ outcome.error.attribute = name
    /\ outcome.error.expected = expected

\* C1, as claimed: whenever the start element lacks the name of a Required
\* attribute slot, parse_element fails with MissingAttribute naming the element
\* and exactly that slot.
C1_MissingAttributeAlways ==
    StructDone =>
        \A k \in Slots :
            (/\ config.attributes[k].occurrences.occ = "Required"
             /\ config.attributes[k].attrib_name \notin DocAttrNames)
            => IsMissingAttribute(config.attributes[k].attrib_name)

\* C1, amended: when every attribute of the start element bears a slot name and
\* decodes, and the name of some Required slot is absent, parse_element fails
\* with MissingAttribute naming the element and the first Required slot, in
\* declared order, that no attribute filled.
C1_MissingAttributeFirstUnfilled ==
    (/\ StructDone
     /\ \A i \in DocAttrs : Decodes(i)
     /\ \E k \in Slots : /\ config.attributes[k].occurrences.occ = "Required"
                         /\ config.attributes[k].attrib_name \notin DocAttrNames)
    => \E k \in Slots :
           /\ config.attributes[k].occurrences.occ = "Required"
           /\ ~Filled(k)
           /\ \A j \in 1..(k - 1) :
                  config.attributes[j].occurrences.occ = "Required" => Filled(j)
           /\ IsMissingAttribute(config.attributes[k].attrib_name)

\* C1, witness: two Required slots of different names are both absent from a
\* start element whose one attribute decodes, and the first is the one reported.
C1_Witness ==
    /\ StructDone
    /\ Len(config.attributes) = 2
    /\ \A k \in Slots : /\ config.attributes[k].occurrences.occ = "Required"
                        /\ config.attributes[k].attrib_name \notin DocAttrNames
    /\ config.attributes[1].attrib_name # config.attributes[2].attrib_name
    /\ IsMissingAttribute(config.attributes[1].attrib_name)

\* C2, as claimed: whenever the start element carries an attribute that is no
\* slot name of the struct, parse_element fails with UnexpectedAttribute whose
\* expected list is the schema's attribute names.
C2_UnexpectedAttributeAlways ==
    (StructDone /\ \E i \in DocAttrs : element_start.attributes[i].name \notin SlotNames)
    => /\ outcome.kind = "Err"
       /\ outcome.error.kind = "UnexpectedAttribute"
       /\ outcome.error.expected = [k \in Slots |-> config.attributes[k].attrib_name]

\* C2, amended: for a struct that is not a stub, when the first attribute that
\* is no slot name comes after attributes that all decode, parse_element fails
\* with UnexpectedAttribute naming the element, that attribute and the schema's
\* attribute names in declared order.
C2_UnexpectedAttributeFirst ==
    (StructDone /\ NonStub) =>
        \A i \in DocAttrs :
            (/\ element_start.attributes[i].name \notin SlotNames
             /\ \A j \in 1..(i - 1) : Decodes(j))
            => IsUnexpectedAttribute(element_start.attributes[i].name,
                   [k \in Slots |-> config.attributes[k].attrib_name])

\* C2, witness: the unknown attribute is the second of the start element, the
\* struct has two slots of different names, and both are listed as expected.
C2_Witness ==
    /\ StructDone
    /\ NonStub
    /\ Len(config.attributes) = 2
    /\ config.attributes[1].attrib_name # config.attributes[2].attrib_name
    /\ Len(element_start.attributes) = 2
    /\ element_start.attributes[1].name \in SlotNames
    /\ element_start.attributes[2].name \notin SlotNames
    /\ IsUnexpectedAttribute(element_start.attributes[2].name,
           <<config.attributes[1].attrib_name, config.attributes[2].attrib_name>>)

\* the value attribute `name` of the start element decodes to, as type ty
DecodedAttribute(name, ty) ==
    LET i == CHOOSE i \in DocAttrs : element_start.attributes[i].name = name
    IN from_str(ty, element_start.attributes[i].value).value

\* C3, as claimed: after a successful parse, the field of every attribute slot
\* with occurrence OptionalWithDefault is the declared default when the
\* attribute is absent and the decoded value of the attribute when it is present.
C3_DefaultOrDecoded ==
    StructOk =>
        \A k \in Slots :
            config.attributes[k].occurrences.occ = "OptionalWithDefault"
            => outcome.value.attribs[k] =
                   IF config.attributes[k].attrib_name \in DocAttrNames
                   THEN DecodedAttribute(config.attributes[k].attrib_name,
                                         config.attributes[k].ty)
                   ELSE IF config.attributes[k].occurrences.default.kind = "Default"
                   THEN type_default(config.attributes[k].ty)
                   ELSE const_value(config.attributes[k].occurrences.default.ident,
                                    config.attributes[k].ty)

\* C3, the failing input: an OptionalWithDefault slot bears the name of an
\* earlier slot, the attribute is present and decodes, and the field is the
\* default all the same.
C3_Shadowed ==
    /\ StructOk
    /\ \E k \in Slots :
           /\ config.attributes[k].occurrences.occ = "OptionalWithDefault"
           /\ config.attributes[k].attrib_name \in DocAttrNames
           /\ ~Filled(k)
           /\ outcome.value.attribs[k] # DecodedAttribute(config.attributes[k].attrib_name,
                                                          config.attributes[k].ty)

ChildSlots == 1..Len(config.children)

\* child slot k is the first, in declared order, whose name test accepts the tag
Selected(k, tag) ==
    /\ child_name_test(config.children[k], tag)
    /\ \A j \in 1..(k - 1) : ~child_name_test(config.children[j], tag)

\* the child elements among the first n events that slot k was selected for
MatchedBy(k, n) ==
    SelectSeq(SubSeq(document, 1, n),
              LAMBDA e : e.kind = "Element" /\ Selected(k, e.name))

\* those of them that contribute a value to a Many slot: every child of a
\* nested-schema type, and the text-decoded children that have text
Contributing(k, n) ==
    SelectSeq(MatchedBy(k, n),
              LAMBDA e : config.children[k].data_type.kind = "ColladaElement"
                         \/ e.body # "Empty")

\* the value a child element decodes to in slot k
ValueOf(k, e) ==
    IF config.children[k].data_type.kind = "TextData"
    THEN from_str(config.children[k].data_type.ty, e.text).value
    ELSE parse_element(config.children[k].data_type.ty, e).value

IsManySlot(k) == config.children[k].occurrences.occ \in Many
IsSingularSlot(k) == config.children[k].occurrences.occ \in Singular

\* C4, as claimed: after a successful parse every Many child slot holds one value
\* per matched child element, in document order.
C4_OnePerMatchedChild ==
    (StructOk /\ NonStub) =>
        \A k \in ChildSlots :
            IsManySlot(k) =>
                /\ Len(outcome.value.childs[k].items) = Len(MatchedBy(k, Len(document)))
                /\ \A i \in 1..Len(MatchedBy(k, Len(document))) :
                       outcome.value.childs[k].items[i]
                           = ValueOf(k, MatchedBy(k, Len(document))[i])

\* C4, amended: after a successful parse every Many child slot holds, in document
\* order and without deduplication, one value per matched child element of a
\* nested-schema type and per matched text-decoded child element that has text;
\* a matched text-decoded child without text contributes nothing.
C4_OnePerContributingChild ==
    (StructOk /\ NonStub) =>
        \A k \in ChildSlots :
            IsManySlot(k) =>
                /\ Len(outcome.value.childs[k].items) = Len(Contributing(k, Len(document)))
                /\ \A i \in 1..Len(Contributing(k, Len(document))) :
                       outcome.value.childs[k].items[i]
                           = ValueOf(k, Contributing(k, Len(document))[i])

\* C4, witness: a Many slot matched three children, one of them without text,
\* and holds the two different values of the others in document order.
C4_Witness ==
    /\ StructOk
    /\ NonStub
    /\ \E k \in ChildSlots :
           /\ IsManySlot(k)
           /\ Len(MatchedBy(k, Len(document))) = 3
           /\ Len(outcome.value.childs[k].items) = 2
           /\ outcome.value.childs[k].items[1] # outcome.value.childs[k].items[2]
           /\ outcome.value.childs[k].items[1] = ValueOf(k, Contributing(k, Len(document))[1])

EnumCalled == config.kind = "EnumMember" /\ pc \in {"call", "return", "done"}
Variants == 1..Len(config.variants)

\* the name test of alternative k accepts the tag of the start element
Accepts(k) == name_test(config_of(config.variants[k].inner_type), element_start.name)

\* the first alternative, in declared order, that accepts the tag
FirstAccepting == CHOOSE k \in Variants : Accepts(k) /\ \A j \in 1..(k - 1) : ~Accepts(j)

\* C5: parse_element of an enum calls the parse function of the first
\* alternative, in declared order, whose name test accepts the tag, and wraps
\* the result in that alternative's variant.
C5_FirstAlternativeWins ==
    /\ (EnumCalled /\ wrap # <<>>) =>
           /\ Accepts(FirstAccepting)
           /\ wrap[1].index = FirstAccepting
           /\ current = config_of(config.variants[FirstAccepting].inner_type)
    /\ (EnumCalled /\ pc = "done" /\ outcome.kind = "Ok") =>
           /\ Accepts(FirstAccepting)
           /\ outcome.value.ty = config.ident
           /\ outcome.value.variant = config.variants[FirstAccepting].name
           /\ outcome.value.inner.ty = config.variants[FirstAccepting].inner_type

\* C5, witness: two alternatives accept the tag, and the result is wrapped in
\* the earlier one, which is not the first alternative of the enum.
C5_Witness ==
    /\ EnumCalled
    /\ pc = "done"
    /\ outcome.kind = "Ok"
    /\ \E k, l \in Variants :
           /\ 1 < k
           /\ k < l
           /\ Accepts(k)
           /\ Accepts(l)
           /\ ~Accepts(1)
           /\ outcome.value.variant = config.variants[k].name

\* C6, as claimed: when no alternative accepts the tag, parse_element of an enum
\* returns an error value naming the tag and the alternatives' element names.
C6_RecoverableError ==
    (EnumCalled /\ pc = "done" /\ \A k \in Variants : ~Accepts(k))
    => /\ outcome.kind = "Err"
       /\ outcome.error.kind = "UnexpectedElement"
       /\ outcome.error.found = element_start.name
       /\ outcome.error.expected = add_names(config)

\* the children-matching pass of the struct has ended
Matched == NonStub /\ pc \in {"assemble", "done"} /\ reader = Len(document) + 1

HasRequiredText ==
    /\ config.text_contents # NoText
    /\ config.text_contents.occurrences.occ = "Required"

\* C7, as claimed: when a Required child slot or the Required text slot holds no
\* value after the children-matching pass, parse_element returns a MissingChild
\* or MissingText error value.
C7_MissingChildError ==
    (/\ Matched
     /\ pc = "done"
     /\ \/ \E k \in ChildSlots : /\ config.children[k].occurrences.occ = "Required"
                                 /\ childs[k] = None
        \/ HasRequiredText /\ text = None)
    => /\ outcome.kind = "Err"
       /\ outcome.error.kind \in {"MissingChild", "MissingText"}
       /\ outcome.error.element = config.element_name

\* C8, as claimed: a successful parse leaves no empty sequence in a RequiredMany
\* child slot.
C8_RequiredManyNonEmpty ==
    (StructOk /\ NonStub) =>
        \A k \in ChildSlots :
            config.children[k].occurrences.occ = "RequiredMany"
            => outcome.value.childs[k].items # <<>>

DefaultOf(occurrences, ty) ==
    IF occurrences.default.kind = "Default" THEN type_default(ty)
    ELSE const_value(occurrences.default.ident, ty)

\* C9, as claimed: the assembled field of every OptionalWithDefault child slot,
\* and of the OptionalWithDefault text slot, is the value the slot holds after
\* the children-matching pass, or the declared default when it holds none.
C9_DefaultSubstituted ==
    (StructOk /\ NonStub) =>
        /\ \A k \in ChildSlots :
               config.children[k].occurrences.occ = "OptionalWithDefault"
               => outcome.value.childs[k] =
                      IF childs[k] = None
                      THEN DefaultOf(config.children[k].occurrences,
                                     config.children[k].data_type.ty)
                      ELSE childs[k].val
        /\ (/\ config.text_contents # NoText
            /\ config.text_contents.occurrences.occ = "OptionalWithDefault")
           => outcome.value.text =
                  IF text = None
                  THEN DefaultOf(config.text_contents.occurrences,
                                 config.text_contents.member_type)
                  ELSE text.val

\* what the action of singular slot k stores for a matched child element
ResultOf(k, e) ==
    IF /\ config.children[k].data_type.kind = "TextData"
       /\ config.children[k].occurrences.occ # "Required"
       /\ e.body = "Empty"
    THEN None
    ELSE Some(ValueOf(k, e))

\* the events consumed so far
Consumed == IF reader > Len(document) THEN Len(document) ELSE reader

\* C10: while the children are matched and when the pass has ended, every
\* singular child slot holds the result of the last child element it was
\* selected for (nothing before the first); and a child element is refused as
\* unexpected only when no slot accepts its tag, so a repeated one is accepted.
C10_LastMatchWins ==
    /\ (NonStub /\ pc \in {"children", "assemble"}) =>
           \A k \in ChildSlots :
               IsSingularSlot(k) =>
                   childs[k] = IF MatchedBy(k, Consumed) = <<>> THEN None
                               ELSE ResultOf(k, MatchedBy(k, Consumed)[Len(MatchedBy(k, Consumed))])
    /\ (/\ StructDone
        /\ outcome.kind = "Err"
        /\ outcome.error.kind = "UnexpectedElement"
        /\ outcome.error.found # "")
       => \A k \in ChildSlots : ~child_name_test(config.children[k], outcome.error.found)

\* C10, witness: a singular slot was selected for two child elements with
\* different results, the pass has ended, and the slot holds the second.
C10_Witness ==
    /\ NonStub
    /\ pc = "assemble"
    /\ \E k \in ChildSlots :
           /\ IsSingularSlot(k)
           /\ Len(MatchedBy(k, Consumed)) = 2
           /\ ResultOf(k, MatchedBy(k, Consumed)[1]) # ResultOf(k, MatchedBy(k, Consumed)[2])
           /\ childs[k] = ResultOf(k, MatchedBy(k, Consumed)[2])

IsPrefix(s, t) == Len(s) <= Len(t) /\ SubSeq(t, 1, Len(s)) = s

\* the accumulator of the struct exists: between member_decls and the return
Accumulating == NonStub /\ pc \in {"attributes", "children", "assemble"}

HasManyText ==
    /\ config.text_contents # NoText
    /\ config.text_contents.occurrences.occ \in Many

\* C11, as claimed: in every step of one parse, the sequence of every Many child
\* slot and of the Many text slot before the step is a prefix of the sequence
\* after it.
C11_ManySlotsOnlyGrow ==
    [][Accumulating =>
          /\ \A k \in ChildSlots :
                 IsManySlot(k) => IsPrefix(childs[k].items, childs'[k].items)
          /\ HasManyText => IsPrefix(text.items, text'.items)]_vars

\* C11, the failing input: the text handler runs a second time on a Many text
\* slot that holds values, and the values it held are gone.
C11_TextReplaced ==
    /\ Accumulating
    /\ HasManyText
    /\ reader >= 2
    /\ reader <= Len(document)
    /\ \E i \in 1..(reader - 1) :
           /\ document[i].kind = "Characters"
           /\ document[reader].kind = "Characters"
           /\ parse_words(config.text_contents.member_type, document[i].text, 1).kind = "Ok"
           /\ parse_words(config.text_contents.member_type, document[i].text, 1).value # <<>>
           /\ ~IsPrefix(parse_words(config.text_contents.member_type,
                                    document[i].text, 1).value, text.items)
           /\ \A j \in (i + 1)..(reader - 1) : document[j].kind # "Characters"

\* the names an attribute or a tag may bear
Tags == {"a", "b", "e", "z", "id", "w", "extra", "ident", "first", "second"}

\* the field of the declaration that has the identifier
FieldOf(ident) ==
    input.fields[CHOOSE i \in 1..Len(input.fields) : input.fields[i].ident = ident]

NameAttrs(field) == {i \in 1..Len(field.attrs) : field.attrs[i].name = "name"}

\* the value of the field's `name` override when one is given, the field's own
\* identifier otherwise
DeclaredName(field) ==
    IF NameAttrs(field) = {} THEN field.ident
    ELSE field.attrs[CHOOSE i \in NameAttrs(field) :
                         \A j \in NameAttrs(field) : j <= i].lit

\* the type a field holds: T of T, Option<T> and Vec<T>
DeclaredType(field) ==
    IF field.ty.types = <<>> THEN field.ty.ident ELSE field.ty.types[1]

\* the arm of the generated match that name selects is the first attribute
\* field, in declared order, whose declared name it is
AttributeNamesDeclared ==
    \A name \in Tags :
        /\ matches(config.attributes, 1, name) # 0
           <=> \E k \in Slots :
                   DeclaredName(FieldOf(config.attributes[k].member_name)) = name
        /\ matches(config.attributes, 1, name) # 0
           => /\ DeclaredName(FieldOf(
                     config.attributes[matches(config.attributes, 1, name)].member_name)) = name
              /\ \A j \in 1..(matches(config.attributes, 1, name) - 1) :
                     DeclaredName(FieldOf(config.attributes[j].member_name)) # name

\* C12, as claimed: the name the generated parser matches an attribute field or
\* a child field against is the field's `name` override when one is given and
\* the field's identifier otherwise, whatever the type of the child.
C12_DeclaredNameMatched ==
    NonStub =>
        /\ AttributeNamesDeclared
        /\ \A k \in ChildSlots, tag \in Tags :
               child_name_test(config.children[k], tag)
               <=> tag = DeclaredName(FieldOf(config.children[k].member_name))

\* C12, amended: the name the generated parser matches an attribute field or a
\* child field of text-decoded type against is the field's `name` override when
\* one is given and the field's identifier otherwise; a child field of
\* nested-schema type matches the tags its type's name_test accepts, whatever
\* the field's `name` override and identifier.
C12_DeclaredNameOrTypeMatched ==
    NonStub =>
        /\ AttributeNamesDeclared
        /\ \A k \in ChildSlots, tag \in Tags :
               child_name_test(config.children[k], tag)
               <=> IF DeclaredType(FieldOf(config.children[k].member_name)) \in TextTypes
                   THEN tag = DeclaredName(FieldOf(config.children[k].member_name))
                   ELSE name_test(config_of(
                            DeclaredType(FieldOf(config.children[k].member_name))), tag)

\* C12, witness: every member bears an override; the attribute `id`, the child
\* `b` and a child `a` of the element type were parsed into the fields, and
\* `a` is neither the override nor the identifier of the third field.
C12_Witness ==
    /\ StructOk
    /\ NonStub
    /\ Len(config.attributes) = 1
    /\ Len(config.children) = 2
    /\ \A k \in ChildSlots :
           /\ NameAttrs(FieldOf(config.children[k].member_name)) # {}
           /\ DeclaredName(FieldOf(config.children[k].member_name))
                  # config.children[k].member_name
    /\ DeclaredName(FieldOf(config.attributes[1].member_name)) = "id"
    /\ config.attributes[1].member_name = "ident"
    /\ IsSome(outcome.value.attribs[1])
    /\ document = <<Element("b", <<>>, "Text", <<"1">>), Element("a", <<>>, "Empty", <<>>)>>
    /\ outcome.value.childs[1] = Some(Num(1))
    /\ IsSome(outcome.value.childs[2])
    /\ DeclaredName(FieldOf(config.children[2].member_name)) = "e"

\* two fields of the declaration are both attributes, or both children, and
\* declare the same name
Collision ==
    \E i, j \in 1..Len(input.fields) :
        /\ i < j
        /\ input.fields[i].attrs[1].name \in {"attribute", "child"}
        /\ input.fields[i].attrs[1].name = input.fields[j].attrs[1].name
        /\ DeclaredName(input.fields[i]) = DeclaredName(input.fields[j])

\* C13, as claimed: no schema process_derive_input yields has two attribute
\* slots of the same attribute name or two child slots of the same element
\* name; a declaration with such a collision is rejected with an error when the
\* schema is built.
C13_SlotNamesUnique ==
    /\ config.kind = "StructMember" =>
           /\ Distinct([k \in Slots |-> config.attributes[k].attrib_name])
           /\ Distinct([k \in ChildSlots |-> config.children[k].element_name])
    /\ (pc # "derive" /\ input.body = "Struct" /\ Collision) =>
           /\ pc = "rejected"
           /\ outcome.kind = "Err"

\* C13, the failing input: a declaration with a collision was turned into a
\* schema, and a document was parsed with it.
C13_CollisionParsed ==
    /\ StructOk
    /\ Collision
    /\ \E k, l \in Slots :
           /\ k < l
           /\ config.attributes[k].attrib_name = config.attributes[l].attrib_name

HasAttr(field, name) == \E i \in 1..Len(field.attrs) : field.attrs[i].name = name

\* the occurrence a field's declared shape stands for, "Rejected" for a
\* parameterised type that is neither Option<T> nor Vec<T>
DeclaredOccurrence(field) ==
    IF field.ty.types = <<>>
    THEN IF HasAttr(field, "optional_with_default")
         THEN "OptionalWithDefault" ELSE "Required"
    ELSE IF field.ty.ident = "Option" THEN "Optional"
    ELSE IF field.ty.ident = "Vec"
    THEN IF HasAttr(field, "required") THEN "RequiredMany" ELSE "OptionalMany"
    ELSE "Rejected"

\* the declared shape of the field is one the derive refuses
ShapeRefused(field) ==
    \/ DeclaredOccurrence(field) = "Rejected"
    \/ /\ field.attrs[1].name = "attribute"
       /\ DeclaredOccurrence(field) \in Many

EmptyValue == [ty |-> input.ident]

\* nothing of the element was interpreted: no member was declared or filled
Uninterpreted ==
    /\ attribs = <<>>
    /\ childs = <<>>
    /\ text = None
    /\ attrib_fields = <<>>

\* C15, as claimed: every struct declared with no fields is a stub; its
\* parse_element skips the whole element, interprets nothing of it and returns
\* the empty value, whatever the attributes and children of the element.
C15_NoFieldsIsStub ==
    (pc # "derive" /\ input.body \in {"Unit", "Struct"} /\ input.fields = <<>>) =>
        /\ pc # "rejected"
        /\ config.stub_me_out
        /\ pc = "done" => /\ outcome = Ok(EmptyValue)
                          /\ reader = Len(document) + 1
                          /\ Uninterpreted

\* C15, amended: every struct declared as a unit struct is a stub; its
\* parse_element skips the whole element, interprets nothing of it and returns
\* the empty value, whatever the attributes and children of the element.  A
\* struct declared with a field list, empty or not, is no stub.
C15_UnitStructIsStub ==
    /\ (pc # "derive" /\ input.body = "Unit") =>
           /\ pc # "rejected"
           /\ config.stub_me_out
           /\ pc = "done" => /\ outcome = Ok(EmptyValue)
                             /\ reader = Len(document) + 1
                             /\ Uninterpreted
    /\ (pc \notin {"derive", "rejected"} /\ input.body = "Struct") =>
           ~config.stub_me_out

\* C15, witness: a unit struct was parsed from an element that has an attribute
\* and a child, and the result is the empty value.
C15_Witness ==
    /\ pc = "done"
    /\ input.body = "Unit"
    /\ Len(element_start.attributes) > 0
    /\ Len(document) > 0
    /\ document[1].kind = "Element"
    /\ reader = Len(document) + 1
    /\ outcome = Ok(EmptyValue)

\* every member of the accumulator is as member_decls left it
NoSlotActionRun ==
    /\ \A k \in 1..Len(childs) :
           childs[k] = IF IsSingularSlot(k) THEN None ELSE Vec(<<>>)
    /\ text = IF HasManyText THEN Vec(<<>>) ELSE None

AttributeErrors == {"UnexpectedAttribute", "MissingAttribute", "ValueDecodeError"}

GroupPanic == Panic("Unexpected group member")

\* C17: the name test of an enum accepts a tag exactly when the chain of its
\* parse_element finds an alternative for it, that is when some alternative's
\* name test accepts the tag; parse_element of an enum panics exactly when it is
\* called with a tag its own name test rejects; and the parse of a struct never
\* panics in a child slot of an enum type, whose action runs only for a tag
\* the enum's name test accepted.
C17_NameTestGuardsDispatch ==
    /\ EnumCalled =>
           /\ name_test(config, element_start.name)
              <=> \E k \in Variants : Accepts(k)
           /\ name_test(config, element_start.name)
              <=> parse_variants(config.variants, Len(config.variants),
                                 element_start.name) # 0
           /\ pc = "done" =>
                  (outcome = GroupPanic <=> ~name_test(config, element_start.name))
    /\ config.kind = "StructMember" =>
           /\ outcome # GroupPanic
           /\ \A k \in ChildSlots, i \in 1..Len(document) :
                  (/\ config.children[k].data_type.kind = "ColladaElement"
                   /\ document[i].kind = "Element"
                   /\ child_name_test(config.children[k], document[i].name))
                  => parse_element(config.children[k].data_type.ty, document[i]).kind = "Ok"

\* C17, witness: a child slot of the enum type was selected for the tag of its
\* second alternative, and holds the value wrapped in that variant.
C17_Witness ==
    /\ StructOk
    /\ NonStub
    /\ \E k \in ChildSlots :
           /\ config.children[k].data_type.ty = "Geo"
           /\ IsSingularSlot(k)
           /\ Len(MatchedBy(k, Len(document))) = 1
           /\ MatchedBy(k, Len(document))[1].name = "b"
           /\ childs[k] = Some([ty |-> "Geo", variant |-> "B", inner |-> [ty |-> "TB"]])

=============================================================================
